---- MODULE Spec2Model ----
(***************************************************************************)
(* Model of main.py: a batch script that sends each image of a fixed list  *)
(* to the Rekognition celebrity service and saves an annotated copy.       *)
(*                                                                         *)
(* Strings that the program takes apart (file names, paths) are sequences  *)
(* of one-character strings.  Box fractions are rationals <<num, den>>;    *)
(* the boxes enumerated below are ones on which the double arithmetic of   *)
(* the program and exact rational arithmetic give the same pixels.         *)
(***************************************************************************)
EXTENDS Integers, Sequences, FiniteSets, TLC

VARIABLES
    disk,         \* the file system: path -> image stored there
    rekognition,  \* the remote service: path of the submitted file -> reply
    unwritable,   \* paths at which image.save cannot open its target
    font_ok,      \* whether ImageFont.truetype finds Ubuntu-R.ttf
    pc,           \* "loop" while the for loop runs, "done" after it
    i,            \* position of the for loop in image_files (1-based)
    run,          \* which invocation of the script this is
    stdout,       \* the lines printed by the current invocation
    image,        \* the in-memory image of the latest draw_face_boxes call
    prev          \* what the previous invocation left: its disk and stdout

vars == <<disk, rekognition, unwritable, font_ok, pc, i, run, stdout, image, prev>>

----------------------------------------------------------------------------
(* Bounds of the explored environments *)

MaxPresent == 2

MaxPresentFair == 1

MaxFaces == 2

----------------------------------------------------------------------------
(* Program constants *)

image_files ==
    << <<"c", "a", "p", "r", ".", "j", "p", "e", "g">>,
       <<"r", "i", "a", "n", "a", ".", "j", "p", "e", "g">>,
       <<"w", "i", "l", "l", ".", "j", "p", "g">>,
       <<"s", "s", ".", "j", "p", "g">>,
       <<"p", "i", "p", "o", "q", "u", "i", "n", "h", "a", ".", "j", "p", "g">>,
       <<"B", "o", "n", "n", "e", ".", "j", "p", "g">>,
       <<"i", "o", "r", ".", "j", "p", "g">>,
       <<"j", "o", "j", "o", ".", "j", "p", "g">>,
       <<"D", "a", "v", "i", ".", "j", "p", "g">>,
       <<"s", "u", "b", ".", "j", "p", "g">> >>

ImagesDir == <<"i", "m", "a", "g", "e", "s">>

ResultSuffix == <<"-", "r", "e", "s", "u", "l", "t", "a", "d", "o", ".", "j", "p", "g">>

ConfidenceThreshold == 90

OutlineWidth == 3

LabelOffset == 20

\* variant: the default in another language
DefaultNameEnglish == "Unknown"

DefaultName == "Desconhecido"

\* Path(__file__).parent: the directory the script is installed in
ScriptDir == <<"/", "a", "p", "p">>

----------------------------------------------------------------------------
(* Paths *)

Sep == <<"/">>

\* pathlib's "/" on a directory and one more component
JoinPath(dir, name) ==
    IF name # <<>> /\ name[1] = "/" THEN name ELSE dir \o Sep \o name

get_image_path(file_name) ==
    JoinPath(JoinPath(ScriptDir, ImagesDir), file_name)

\* str.rfind, 1-based, 0 when the character does not occur
RFind(s, c) ==
    IF \E k \in 1..Len(s) : s[k] = c
    THEN CHOOSE k \in 1..Len(s) : s[k] = c /\ \A m \in (k+1)..Len(s) : s[m] # c
    ELSE 0

\* Path(p).name: the final component
PathName(p) == SubSeq(p, RFind(p, "/") + 1, Len(p))

\* Path(p).parent
PathParent(p) == SubSeq(p, 1, RFind(p, "/") - 1)

\* variant: the suffix is not removed
PathStemWhole(p) == PathName(p)

\* Path(p).stem: the final component without its last suffix
PathStem(p) ==
    LET name == PathName(p)
        dot  == RFind(name, ".")
    IN  IF 1 < dot /\ dot < Len(name) THEN SubSeq(name, 1, dot - 1) ELSE name

\* variant: the result replaces the input
OutputPathInPlace(photo_path) == photo_path

\* variant: the result is named <stem>.jpg
OutputPathPlain(photo_path) == get_image_path(PathStem(photo_path) \o <<".", "j", "p", "g">>)

OutputPath(photo_path) == get_image_path(PathStem(photo_path) \o ResultSuffix)

----------------------------------------------------------------------------
(* Dictionaries and arithmetic *)

\* dict.get(key, default)
Get(d, k, default) == IF k \in DOMAIN d THEN d[k] ELSE default

\* variant: rounding down
Floor(n, d) == n \div d

\* int(n / d) for d > 0: truncation toward zero
Trunc(n, d) == IF n >= 0 THEN n \div d ELSE -((-n) \div d)

\* a + b on fractions
FracAdd(a, b) == <<a[1] * b[2] + b[1] * a[2], a[2] * b[2]>>

\* int(f * n) for a fraction f and a pixel count n
Scale(f, n) == Trunc(f[1] * n, f[2])

----------------------------------------------------------------------------
(* draw_face_boxes *)

BoxKeys == {"Left", "Top", "Width", "Height"}

\* face["Face"]["BoundingBox"] and its four reads raise no KeyError
BoxReadable(face) ==
    /\ "Face" \in DOMAIN face
    /\ "BoundingBox" \in DOMAIN face.Face
    /\ BoxKeys \subseteq DOMAIN face.Face.BoundingBox

\* <<left, top, right, bottom>> in pixels
PixelBox(box, size) ==
    << Scale(box.Left, size[1]),
       Scale(box.Top, size[2]),
       Scale(FracAdd(box.Left, box.Width), size[1]),
       Scale(FracAdd(box.Top, box.Height), size[2]) >>

RectangleOp(px) ==
    [op |-> "rectangle", xy |-> px, text |-> "", colour |-> "red", width |-> OutlineWidth]

\* draw.rectangle(draw.textbbox(pos, name, font), fill="red"): the extent of
\* the box is the font's; the operation is identified by anchor and text
LabelBackgroundOp(pos, name) ==
    [op |-> "textbbox", xy |-> pos, text |-> name, colour |-> "red", width |-> 0]

TextOp(pos, name) ==
    [op |-> "text", xy |-> pos, text |-> name, colour |-> "white", width |-> 0]

\* variant: the threshold itself passes
DrawFaceAtLeast(img, face) ==
    IF ~BoxReadable(face)
    THEN [raised |-> TRUE, err |-> "KeyError", image |-> img]
    ELSE LET px == PixelBox(face.Face.BoundingBox, img.size)
             name == Get(face, "Name", DefaultName)
             text_position == <<px[1], px[2] - LabelOffset>>
         IN  IF Get(face, "MatchConfidence", 0) >= ConfidenceThreshold
             THEN [raised |-> FALSE, err |-> "",
                   image |-> [img EXCEPT !.ops = @ \o
                       << RectangleOp(px),
                          LabelBackgroundOp(text_position, name),
                          TextOp(text_position, name) >>]]
             ELSE [raised |-> FALSE, err |-> "", image |-> img]

\* one iteration of the for loop over faces
DrawFace(img, face) ==
    IF ~BoxReadable(face)
    THEN [raised |-> TRUE, err |-> "KeyError", image |-> img]
    ELSE LET px == PixelBox(face.Face.BoundingBox, img.size)
             confidence == Get(face, "MatchConfidence", 0)
             name == Get(face, "Name", DefaultName)
             text_position == <<px[1], px[2] - LabelOffset>>
         IN  IF confidence > ConfidenceThreshold
             THEN [raised |-> FALSE, err |-> "",
                   image |-> [img EXCEPT !.ops = @ \o
                       << RectangleOp(px),
                          LabelBackgroundOp(text_position, name),
                          TextOp(text_position, name) >>]]
             ELSE [raised |-> FALSE, err |-> "", image |-> img]

RECURSIVE DrawLoop(_, _)
\* the for loop over faces: stops at the first iteration that raises
DrawLoop(img, faces) ==
    IF faces = <<>>
    THEN [raised |-> FALSE, err |-> "", image |-> img]
    ELSE LET r == DrawFace(img, Head(faces))
         IN  IF r.raised THEN r ELSE DrawLoop(r.image, Tail(faces))

\* draw_face_boxes up to, not including, image.save
DrawBoxes(img, faces) ==
    IF ~font_ok
    THEN [raised |-> TRUE, err |-> "OSError", image |-> img]
    ELSE DrawLoop(img, faces)

----------------------------------------------------------------------------
(* The batch loop *)

NumFiles == Len(image_files)

image_file == image_files[i]

photo_path == get_image_path(image_file)

celebrity_faces == Get(rekognition[photo_path].response, "CelebrityFaces", <<>>)

output_path == OutputPath(photo_path)

InLoop == pc = "loop" /\ i <= NumFiles

Line(msg, arg, err) == [msg |-> msg, arg |-> arg, err |-> err]

\* except Exception as e: print(...), then the next iteration
Except(err) ==
    /\ stdout' = Append(stdout, Line("Erro ao processar a imagem", image_file, err))
    /\ i' = i + 1
    /\ UNCHANGED <<rekognition, unwritable, font_ok, pc, run, prev>>

\* variant: the error is not caught and ends the script
OpenRaisesUncaught ==
    /\ InLoop
    /\ photo_path \notin DOMAIN disk
    /\ stdout' = Append(stdout, Line("Traceback", image_file, "FileNotFoundError"))
    /\ pc' = "done"
    /\ UNCHANGED <<disk, rekognition, unwritable, font_ok, i, run, image, prev>>

\* open(photo_path, "rb") raises: the file is not there
OpenRaises ==
    /\ InLoop
    /\ photo_path \notin DOMAIN disk
    /\ Except("FileNotFoundError")
    /\ UNCHANGED <<disk, image>>

\* rekognition_client.recognize_celebrities raises
RekognitionRaises ==
    /\ InLoop
    /\ photo_path \in DOMAIN disk
    /\ rekognition[photo_path].raises
    /\ Except("ClientError")
    /\ UNCHANGED <<disk, image>>

\* variant: the empty list is passed on to draw_face_boxes
NoCelebritiesCopies ==
    /\ InLoop
    /\ photo_path \in DOMAIN disk
    /\ ~rekognition[photo_path].raises
    /\ celebrity_faces = <<>>
    /\ image' = disk[photo_path]
    /\ disk' = [p \in DOMAIN disk \cup {output_path} |->
                   IF p = output_path THEN disk[photo_path] ELSE disk[p]]
    /\ stdout' = Append(stdout, Line("Imagem processada e salva em", output_path, ""))
    /\ i' = i + 1
    /\ UNCHANGED <<rekognition, unwritable, font_ok, pc, run, prev>>

\* if not celebrity_faces: print(...); continue
NoCelebrities ==
    /\ InLoop
    /\ photo_path \in DOMAIN disk
    /\ ~rekognition[photo_path].raises
    /\ celebrity_faces = <<>>
    /\ stdout' = Append(stdout, Line("Nenhuma celebridade detectada em", photo_path, ""))
    /\ i' = i + 1
    /\ UNCHANGED <<disk, rekognition, unwritable, font_ok, pc, run, image, prev>>

CallsDraw ==
    /\ InLoop
    /\ photo_path \in DOMAIN disk
    /\ ~rekognition[photo_path].raises
    /\ celebrity_faces # <<>>

\* variant: the image is saved whether or not the loop raised
DrawRaisesSaves ==
    /\ CallsDraw
    /\ LET r == DrawBoxes(disk[photo_path], celebrity_faces)
       IN  /\ r.raised
           /\ image' = r.image
           /\ disk' = [p \in DOMAIN disk \cup {output_path} |->
                          IF p = output_path THEN r.image ELSE disk[p]]
           /\ Except(r.err)

\* draw_face_boxes raises before image.save
DrawRaises ==
    /\ CallsDraw
    /\ LET r == DrawBoxes(disk[photo_path], celebrity_faces)
       IN  /\ r.raised
           /\ image' = r.image
           /\ Except(r.err)
    /\ UNCHANGED disk

\* draw_face_boxes reaches image.save, which raises
SaveRaises ==
    /\ CallsDraw
    /\ LET r == DrawBoxes(disk[photo_path], celebrity_faces)
       IN  /\ ~r.raised
           /\ output_path \in unwritable
           /\ image' = r.image
           /\ Except("PermissionError")
    /\ UNCHANGED disk

\* draw_face_boxes saves the image and prints
DrawSaves ==
    /\ CallsDraw
    /\ LET r == DrawBoxes(disk[photo_path], celebrity_faces)
       IN  /\ ~r.raised
           /\ output_path \notin unwritable
           /\ image' = r.image
           /\ disk' = [p \in DOMAIN disk \cup {output_path} |->
                          IF p = output_path THEN r.image ELSE disk[p]]
    /\ stdout' = Append(stdout, Line("Imagem processada e salva em", output_path, ""))
    /\ i' = i + 1
    /\ UNCHANGED <<rekognition, unwritable, font_ok, pc, run, prev>>

\* the for loop is exhausted and the script ends
LoopEnd ==
    /\ pc = "loop"
    /\ i > NumFiles
    /\ pc' = "done"
    /\ UNCHANGED <<disk, rekognition, unwritable, font_ok, i, run, stdout, image, prev>>

\* the script is started again on what the finished invocation left
Rerun ==
    /\ pc = "done"
    /\ run = 1
    /\ run' = 2
    /\ pc' = "loop"
    /\ i' = 1
    /\ stdout' = <<>>
    /\ prev' = [disk |-> disk, stdout |-> stdout]
    /\ UNCHANGED <<disk, rekognition, unwritable, font_ok, image>>

Next ==
    \/ OpenRaises
    \/ RekognitionRaises
    \/ NoCelebrities
    \/ DrawRaises
    \/ SaveRaises
    \/ DrawSaves
    \/ LoopEnd

NextTwice == Next \/ Rerun

----------------------------------------------------------------------------
(* Environments *)

BlankImage(size) == [size |-> size, ops |-> <<>>]

NoImage == BlankImage(<<0, 0>>)

PhotoPaths == {get_image_path(image_files[j]) : j \in 1..NumFiles}

Box1 == [Left |-> <<1, 10>>, Top |-> <<2, 10>>, Width |-> <<3, 10>>, Height |-> <<4, 10>>]

Box2 == [Left |-> <<-1, 8>>, Top |-> <<3, 8>>, Width |-> <<1, 2>>, Height |-> <<1, 4>>]

Boxes == {Box1, Box2}

Sizes == {<<1000, 500>>, <<7, 5>>}

Confidences == {90, 91}

Names == {"Will Smith"}

\* entities whose box can be read
WellFormed ==
    {[Face |-> [BoundingBox |-> b], MatchConfidence |-> c, Name |-> n] :
        b \in Boxes, c \in Confidences, n \in Names}
    \cup {[Face |-> [BoundingBox |-> b], MatchConfidence |-> c] :
        b \in Boxes, c \in Confidences}
    \cup {[Face |-> [BoundingBox |-> b], Name |-> n] : b \in Boxes, n \in Names}
    \cup {[Face |-> [BoundingBox |-> b]] : b \in Boxes}

\* entities whose box cannot be read
Malformed ==
    { [MatchConfidence |-> 50, Name |-> "Will Smith"],
      [Face |-> [Confidence |-> 99], MatchConfidence |-> 99, Name |-> "Will Smith"],
      [Face |-> [BoundingBox |-> [Left |-> <<1, 10>>, Top |-> <<2, 10>>]],
       MatchConfidence |-> 90] }

Entities == WellFormed \cup Malformed

FaceLists == UNION {[1..n -> Entities] : n \in 0..MaxFaces}

Star == [Face |-> [BoundingBox |-> Box1], MatchConfidence |-> 99, Name |-> "Will Smith"]

LookAlike == [Face |-> [BoundingBox |-> Box2], MatchConfidence |-> 60, Name |-> "Rihanna"]

NoBox == [MatchConfidence |-> 50, Name |-> "Will Smith"]

ReplyError == [raises |-> TRUE, response |-> [ResponseMetadata |-> 500]]

Reply(response) == [raises |-> FALSE, response |-> response]

FacesReply(faces) == Reply([CelebrityFaces |-> faces, ResponseMetadata |-> 200])

Kinds == {"error", "absent", "empty", "faces", "nobox", "unwritable"}

ReplyOf(kind) ==
    CASE kind = "error"      -> ReplyError
      [] kind = "absent"     -> Reply([ResponseMetadata |-> 200])
      [] kind = "empty"      -> FacesReply(<<>>)
      [] kind = "faces"      -> FacesReply(<<Star, LookAlike>>)
      [] kind = "nobox"      -> FacesReply(<<Star, NoBox>>)
      [] kind = "unwritable" -> FacesReply(<<Star, LookAlike>>)

Start ==
    /\ pc = "loop"
    /\ i = 1
    /\ run = 1
    /\ stdout = <<>>
    /\ image = NoImage
    /\ prev = [disk |-> <<>>, stdout |-> <<>>]

\* at most n of the listed files exist; each gets one of the replies
InitWith(n) ==
    /\ Start
    /\ font_ok = TRUE
    /\ \E present \in {S \in SUBSET (1..NumFiles) : Cardinality(S) <= n} :
         \E kind \in [present -> Kinds] :
           /\ disk = [p \in {get_image_path(image_files[j]) : j \in present} |->
                         BlankImage(<<1000, 500>>)]
           /\ rekognition = [p \in PhotoPaths |->
                 IF \E j \in present : get_image_path(image_files[j]) = p
                 THEN ReplyOf(kind[CHOOSE j \in present : get_image_path(image_files[j]) = p])
                 ELSE ReplyError]
           /\ unwritable = {OutputPath(get_image_path(image_files[j])) :
                               j \in {m \in present : kind[m] = "unwritable"}}

Init == InitWith(MaxPresent)

InitFair == InitWith(MaxPresentFair)

\* only the first listed file exists; its reply is any list of entities
InitAnnot ==
    /\ Start
    /\ font_ok \in BOOLEAN
    /\ \E size \in Sizes :
         disk = [p \in {get_image_path(image_files[1])} |-> BlankImage(size)]
    /\ \E reply \in {ReplyError} \cup {FacesReply(faces) : faces \in FaceLists} :
         rekognition = [p \in PhotoPaths |->
             IF p = get_image_path(image_files[1]) THEN reply ELSE ReplyError]
    /\ unwritable \in {{}, {OutputPath(get_image_path(image_files[1]))}}

Spec == Init /\ [][Next]_vars

\* the interpreter keeps executing the script until it ends
FairSpec == InitFair /\ [][Next]_vars /\ WF_vars(Next)

SpecAnnot == InitAnnot /\ [][Next]_vars

SpecTwice == Init /\ [][NextTwice]_vars

----------------------------------------------------------------------------
(* Properties of the batch loop *)

Saved == "Imagem processada e salva em"

Nothing == "Nenhuma celebridade detectada em"

Failed == "Erro ao processar a imagem"

\* the entities the service reports for the j-th listed file
FacesOf(j) ==
    Get(rekognition[get_image_path(image_files[j])].response, "CelebrityFaces", <<>>)

IsHigh(face) == Get(face, "MatchConfidence", 0) > 90

\* the file that the j-th printed line is about
FileOfLine(j) ==
    IF stdout[j].msg = Failed THEN stdout[j].arg
    ELSE IF stdout[j].msg = Nothing THEN PathName(stdout[j].arg)
    ELSE image_files[j]

\* C1: every iteration prints exactly one line about its own file, in list
\* order; an iteration whose file is missing or whose remote call fails
\* prints the error line with the file name; the loop always reaches its
\* end, having attempted every listed file once.
C1_BatchCompletes ==
    /\ [](/\ Len(stdout) = (IF pc = "done" THEN NumFiles ELSE i - 1)
          /\ \A j \in 1..Len(stdout) :
               /\ FileOfLine(j) = image_files[j]
               /\ (\/ get_image_path(image_files[j]) \notin DOMAIN disk
                   \/ rekognition[get_image_path(image_files[j])].raises)
                  => stdout[j].msg = Failed /\ stdout[j].arg = image_files[j])
    /\ <>(pc = "done" /\ Len(stdout) = NumFiles)

\* a batch that ended, in which a file failed and a later file was saved
C1_Witness ==
    /\ pc = "done"
    /\ \E j \in 1..Len(stdout) : \E k \in (j+1)..Len(stdout) :
         stdout[j].msg = Failed /\ stdout[k].msg = Saved

\* C2: an iteration whose response has no entities (an empty list, or no
\* list at all) opens no image and leaves every file as it was.
C2_EmptyResponseWritesNothing ==
    [][(/\ InLoop
        /\ get_image_path(image_files[i]) \in DOMAIN disk
        /\ ~rekognition[get_image_path(image_files[i])].raises
        /\ FacesOf(i) = <<>>)
       => (disk' = disk /\ image' = image /\ i' = i + 1
           /\ stdout' = Append(stdout, Line(Nothing, get_image_path(image_files[i]), "")))]_vars

\* a file whose response lacks the list was passed over and has no output
C2_Witness ==
    \E j \in 1..Len(stdout) :
        /\ stdout[j].msg = Nothing
        /\ "CelebrityFaces" \notin DOMAIN rekognition[get_image_path(image_files[j])].response
        /\ \A p \in DOMAIN disk : p \in PhotoPaths

\* C5: every file the batch creates lies in the images directory of its
\* input and is named <stem>-resultado.jpg, the stem being the input name up
\* to its last dot; capr.jpeg gives capr-resultado.jpg.
C5_OutputName ==
    \A j \in 1..Len(stdout) :
        stdout[j].msg = Saved =>
            LET name == image_files[j]
                out  == stdout[j].arg
            IN  /\ out \in DOMAIN disk
                /\ PathParent(out) = PathParent(get_image_path(name))
                /\ \E k \in 2..(Len(name) - 1) :
                     /\ name[k] = "."
                     /\ \A m \in (k+1)..Len(name) : name[m] # "."
                     /\ PathName(out) = SubSeq(name, 1, k - 1) \o
                          <<"-", "r", "e", "s", "u", "l", "t", "a", "d", "o", ".", "j", "p", "g">>
                /\ (name = <<"c", "a", "p", "r", ".", "j", "p", "e", "g">> =>
                      PathName(out) = <<"c", "a", "p", "r", "-", "r", "e", "s", "u", "l",
                                        "t", "a", "d", "o", ".", "j", "p", "g">>)

\* capr.jpeg was annotated and its result is on disk
C5_Witness ==
    /\ Len(stdout) >= 1
    /\ stdout[1].msg = Saved
    /\ JoinPath(JoinPath(ScriptDir, ImagesDir),
                <<"c", "a", "p", "r", "-", "r", "e", "s", "u", "l",
                  "t", "a", "d", "o", ".", "j", "p", "g">>) \in DOMAIN disk

C8_SecondRunSame ==
    (run = 2 /\ pc = "done") => (disk = prev.disk /\ stdout = prev.stdout)

\* a second run ended that rewrote an annotated result
C8_Witness ==
    /\ run = 2
    /\ pc = "done"
    /\ \E j \in 1..Len(stdout) :
         stdout[j].msg = Saved /\ disk[stdout[j].arg].ops # <<>>

----------------------------------------------------------------------------
(* Properties of draw_face_boxes, on the one file that exists under         *)
(* SpecAnnot: the first of the list                                         *)

\* draw_face_boxes was called for the first file
Drew == Len(stdout) >= 1 /\ ~rekognition[get_image_path(image_files[1])].raises /\ FacesOf(1) # <<>>

\* ... and its loop ended without raising
Returned == Drew /\ (stdout[1].msg = Saved \/ stdout[1].err = "PermissionError")

HighOf(j) == SelectSeq(FacesOf(j), IsHigh)

\* q is n / d cut toward zero, for d > 0
IsTrunc(q, n, d) ==
    \/ n >= 0 /\ q * d <= n /\ n < (q + 1) * d
    \/ n <= 0 /\ q * d >= n /\ n > (q - 1) * d

\* C3: the image carries one outlined rectangle and one label per entity
\* whose confidence is above 90, in list order, and nothing for the others
\* (confidence 90, or none given): never more rectangles than such entities,
\* and exactly as many once the loop has ended.
C3_ThresholdDrawing ==
    Drew =>
        LET ops == image.ops
            rectangles == {k \in DOMAIN ops : ops[k].op = "rectangle"}
            labels == {k \in DOMAIN ops : ops[k].op = "text"}
        IN  /\ Cardinality(rectangles) <= Len(HighOf(1))
            /\ Cardinality(labels) = Cardinality(rectangles)
            /\ Returned =>
                 /\ Cardinality(rectangles) = Len(HighOf(1))
                 /\ Len(ops) = 3 * Len(HighOf(1))
                 /\ \A j \in 1..Len(HighOf(1)) :
                      /\ ops[3 * j - 2].op = "rectangle"
                      /\ ops[3 * j - 2].width = 3
                      /\ ops[3 * j - 1].op = "textbbox"
                      /\ ops[3 * j].op = "text"
                      /\ ops[3 * j].xy = ops[3 * j - 1].xy
            /\ stdout[1].msg = Saved => disk[stdout[1].arg] = image

\* a saved image of two entities, one at exactly 90 and one above
C3_Witness ==
    /\ Returned
    /\ stdout[1].msg = Saved
    /\ Len(FacesOf(1)) = 2
    /\ Get(FacesOf(1)[1], "MatchConfidence", 0) = 90
    /\ Get(FacesOf(1)[2], "MatchConfidence", 0) = 91
    /\ Len(image.ops) = 3

\* C4: the j-th rectangle is the box of the j-th entity above the threshold
\* scaled by the size of the image being annotated and cut toward zero:
\* left and right by the width, top and bottom by the height; the box
\* (0.1, 0.2, 0.3, 0.4) on 1000 x 500 gives (100, 100)-(400, 300).
C4_PixelBox ==
    Drew =>
        \A j \in 1..(Len(image.ops) \div 3) :
            LET b  == HighOf(1)[j].Face.BoundingBox
                w  == disk[get_image_path(image_files[1])].size[1]
                h  == disk[get_image_path(image_files[1])].size[2]
                xy == image.ops[3 * j - 2].xy
            IN  /\ IsTrunc(xy[1], b.Left[1] * w, b.Left[2])
                /\ IsTrunc(xy[2], b.Top[1] * h, b.Top[2])
                /\ IsTrunc(xy[3], (b.Left[1] * b.Width[2] + b.Width[1] * b.Left[2]) * w,
                           b.Left[2] * b.Width[2])
                /\ IsTrunc(xy[4], (b.Top[1] * b.Height[2] + b.Height[1] * b.Top[2]) * h,
                           b.Top[2] * b.Height[2])
                /\ (/\ b = [Left |-> <<1, 10>>, Top |-> <<2, 10>>,
                            Width |-> <<3, 10>>, Height |-> <<4, 10>>]
                    /\ w = 1000 /\ h = 500) => xy = <<100, 100, 400, 300>>

\* the example box was drawn on a 1000 x 500 image and saved
C4_Witness ==
    /\ Returned
    /\ stdout[1].msg = Saved
    /\ image.size = <<1000, 500>>
    /\ Len(HighOf(1)) >= 1
    /\ HighOf(1)[1].Face.BoundingBox.Left = <<1, 10>>
    /\ disk[stdout[1].arg].ops[1].xy = <<100, 100, 400, 300>>

\* C6 as stated: the label of an entity without a name reads "Unknown".
C6_DefaultUnknown ==
    Drew =>
        \A j \in 1..(Len(image.ops) \div 3) :
            image.ops[3 * j].text = Get(HighOf(1)[j], "Name", "Unknown")

\* C6, amended: the label of an entity above the threshold reads the
\* entity's name, and "Desconhecido" when the entity has no name; the label
\* background is measured on the same text at the same anchor, 20 pixels
\* above the top-left corner of the rectangle.
C6_DefaultDesconhecido ==
    Drew =>
        \A j \in 1..(Len(image.ops) \div 3) :
            /\ image.ops[3 * j].text = Get(HighOf(1)[j], "Name", "Desconhecido")
            /\ image.ops[3 * j - 1].text = image.ops[3 * j].text
            /\ image.ops[3 * j].xy =
                 <<image.ops[3 * j - 2].xy[1], image.ops[3 * j - 2].xy[2] - 20>>

\* a nameless entity above the threshold was labelled
C6_Witness ==
    /\ Returned
    /\ Len(image.ops) >= 3
    /\ "Name" \notin DOMAIN HighOf(1)[1]
    /\ image.ops[3].text = "Desconhecido"

\* C7 as stated: replacing an entity at or below the threshold by any other
\* such entity, readable box or not, changes neither what is drawn nor
\* whether the image is saved.
C7_LowEntityIgnored ==
    Drew =>
        \A k \in DOMAIN FacesOf(1) :
            ~IsHigh(FacesOf(1)[k]) =>
                \A e \in {f \in Entities : ~IsHigh(f)} :
                    LET other == DrawBoxes(disk[get_image_path(image_files[1])],
                                           [FacesOf(1) EXCEPT ![k] = e])
                        saves == /\ ~other.raised
                                 /\ OutputPath(get_image_path(image_files[1])) \notin unwritable
                    IN  /\ saves <=> stdout[1].msg = Saved
                        /\ other.image.ops = image.ops

\* C9: the result is written only by a call whose loop ended without
\* raising, and then with every annotation; a call in which the font or an
\* entity raises writes nothing; a non-empty list that raises nowhere is
\* saved, as a plain copy when no entity is above the threshold; the result
\* is written once.
C9_SaveAfterLoop ==
    LET out == JoinPath(JoinPath(ScriptDir, ImagesDir),
                        <<"c", "a", "p", "r", "-", "r", "e", "s", "u", "l",
                          "t", "a", "d", "o", ".", "j", "p", "g">>)
        raises == ~font_ok \/ \E k \in DOMAIN FacesOf(1) : ~BoxReadable(FacesOf(1)[k])
    IN  /\ Cardinality({j \in 1..Len(stdout) : stdout[j].msg = Saved}) <= 1
        /\ DOMAIN disk \subseteq {get_image_path(image_files[1]), out}
        /\ out \in DOMAIN disk =>
             /\ Drew
             /\ ~raises
             /\ Len(disk[out].ops) = 3 * Len(HighOf(1))
             /\ stdout[1] = Line(Saved, out, "")
        /\ (Drew /\ ~raises /\ out \notin unwritable) =>
             out \in DOMAIN disk

\* a list with no entity above the threshold was saved as a plain copy
C9_Witness ==
    /\ Drew
    /\ HighOf(1) = <<>>
    /\ stdout[1].msg = Saved
    /\ disk[stdout[1].arg].ops = <<>>

====
